---- MODULE Spec2Model ----
(***************************************************************************)
(* Model of the taskbase voting engine: one task row (owner, task id), its *)
(* group notification row, the per-recipient notification rows of that     *)
(* task and of one other task, and concurrent requests (create, ack, task  *)
(* delete, notification delete and batch delete, Task::update,             *)
(* Task::update_assignees) whose atomic steps are the single store calls   *)
(* of src/db/model_task.rs, src/db/model_notification.rs, src/api/task.rs  *)
(* and src/api/notification.rs.  Every store call is one step; the local   *)
(* code that follows a call up to the next call belongs to the same step.  *)
(* The store calls of create, of the deletes and of the teardown may fail. *)
(***************************************************************************)
EXTENDS Integers, FiniteSets, Sequences, TLC

\* ----------------------------------------------------------------- bounds
NumIds == 2
MaxThreshold == 2
MaxClock == 2
MaxPage == 2

\* Two requests run concurrently; each runs one operation, store call by store call.
Procs == {1, 2}
\* The identities that may vote or be members of the task.
Ids == 1..NumIds

VARIABLES
    task,   \* the task row of the store (task table), exists = FALSE when absent
    notif,  \* notification rows of this task, one per recipient id
    gnotif, \* the group notification row of this task
    other,  \* notification rows of another task, one per recipient id
    now,    \* the wall clock read by unix_ms()
    req,    \* per request: operation, inputs, local objects, position, result
    hist    \* history: whether the row ever was in an approvable / rejectable vote state

vars == <<task, notif, gnotif, other, now, req, hist>>

\* ------------------------------------------------------------ data model

\* Task::default(): what Task::with_pk leaves in every non-key field.
TaskDefault ==
    [status |-> 0, created_at |-> 0, updated_at |-> 0, duedate |-> 0,
     threshold |-> 0,
     approvers |-> {}, assignees |-> {}, resolved |-> {}, rejected |-> {},
     message |-> 0]

\* An absent row of the task table.
NoTask ==
    [exists |-> FALSE, status |-> 0, created_at |-> 0, updated_at |-> 0,
     duedate |-> 0, threshold |-> 0,
     approvers |-> {}, assignees |-> {}, resolved |-> {}, rejected |-> {},
     message |-> 0]

\* The row of the Task object api::task::create builds: pending, no votes,
\* created_at and updated_at both the clock reading t.
NewTask(t, threshold, approvers, assignees) ==
    [exists |-> TRUE, status |-> 0, created_at |-> t, updated_at |-> t,
     duedate |-> 0,
     threshold |-> threshold, approvers |-> approvers, assignees |-> assignees,
     resolved |-> {}, rejected |-> {}, message |-> 0]

\* Notification::default() / an absent notification row.
NoNotif == [exists |-> FALSE, status |-> 0, message |-> 0]

\* The row Notification::save stores from Notification::with_pk.
NewNotif == [exists |-> TRUE, status |-> 0, message |-> 0]

\* Task::select_fields: the columns a get_one really selects.
SelectFields(fields) ==
    IF fields = {}
    THEN {"status", "created_at", "updated_at", "duedate", "threshold", "approvers",
          "assignees", "resolved", "rejected", "message"}
    ELSE fields \cup {"gid", "status", "kind"}

\* Task::get_one on a present row: fill() overwrites the selected columns of
\* the local object and keeps all its other fields.
Fill(self, row, fields) ==
    LET sel == SelectFields(fields) IN
    [status     |-> IF "status" \in sel THEN row.status ELSE self.status,
     created_at |-> IF "created_at" \in sel THEN row.created_at ELSE self.created_at,
     updated_at |-> IF "updated_at" \in sel THEN row.updated_at ELSE self.updated_at,
     duedate    |-> IF "duedate" \in sel THEN row.duedate ELSE self.duedate,
     threshold  |-> IF "threshold" \in sel THEN row.threshold ELSE self.threshold,
     approvers  |-> IF "approvers" \in sel THEN row.approvers ELSE self.approvers,
     assignees  |-> IF "assignees" \in sel THEN row.assignees ELSE self.assignees,
     resolved   |-> IF "resolved" \in sel THEN row.resolved ELSE self.resolved,
     rejected   |-> IF "rejected" \in sel THEN row.rejected ELSE self.rejected,
     message    |-> IF "message" \in sel THEN row.message ELSE self.message]

\* GroupNotification::default() / an absent group notification row.
NoGroup == [exists |-> FALSE, role |-> 0]

\* The row GroupNotification::save stores for a task created with a role.
NewGroup(role) == [exists |-> TRUE, role |-> role]

\* A request that has not started.
ReqIdle ==
    [op |-> "idle", pc |-> "idle", result |-> "none",
     uid |-> 0, status |-> 0, message |-> 0,            \* AckTaskInput
     doc |-> NoNotif,                                   \* ack's Notification object
     self |-> TaskDefault,                              \* the local Task object
     keys |-> {}, val |-> 0,                            \* cols of Task::update
     remove |-> {}, add |-> {},                         \* Task::update_assignees
     updated_at |-> 0, new_updated_at |-> 0,            \* version token, new stamp
     group_role |-> {},                                 \* Option<i8> of CreateTaskInput
     tid |-> "task", filter |-> {},                     \* DeleteNotificationInput
     rows |-> {},           \* recipients still to visit in a fan-out / purge loop
     overlap |-> FALSE,     \* history: started while the other request was in flight
     applied |-> FALSE,     \* history: the vote, insert, delete or removal write was applied
     failed |-> FALSE,      \* history: a store call of the request failed
     page_size |-> 0, page_token |-> {},                \* Pagination
     page |-> <<>>, next_page_token |-> {},             \* the page and token returned
     repeat |-> FALSE,      \* history: the request repeats an ack that failed
     before |-> NoTask]     \* history: the task row when the repeated ack began

\* Another request is between its first and its last store call.
InFlight(p) == \E q \in Procs \ {p} : req[q].pc \notin {"idle", "done"}

Finish(r, res) == [r EXCEPT !.pc = "done", !.result = res]

\* ------------------------------------------------------ store-call failures
\* Mutant: a discarded result treated like a propagated one.
SwallowNothing(r, ok, next) ==
    IF ok THEN next ELSE Finish([r EXCEPT !.failed = TRUE], "500")

\* "let _ = call.await": the handler goes on to next whether or not the store
\* call failed.
Swallow(r, ok, next) ==
    IF ok THEN next ELSE [next EXCEPT !.failed = TRUE]

\* "call.await?": a failed store call ends the handler with the error.
Propagate(r, ok, next) ==
    IF ok THEN next ELSE Finish([r EXCEPT !.failed = TRUE], "500")

\* ------------------------------------------------------- the vote statements

\* Mutant: the resolve statement without the removal from rejected.
VoteResolvedKeep(row, assignee) ==
    [row EXCEPT !.resolved = @ \cup {assignee}]

\* Mutant: the resolve statement stamping the row like a versioned write.
VoteResolvedStamped(row, assignee) ==
    [row EXCEPT !.rejected = @ \ {assignee}, !.resolved = @ \cup {assignee},
                !.updated_at = @ + 1]

\* "UPDATE task SET rejected=rejected-{?}, resolved=resolved+{?} ... IF EXISTS"
VoteResolved(row, assignee) ==
    [row EXCEPT !.rejected = @ \ {assignee}, !.resolved = @ \cup {assignee}]

\* Mutant: the reject statement clearing resolved instead of removing one id.
VoteRejectedOverwrite(row, assignee) ==
    [row EXCEPT !.resolved = {}, !.rejected = @ \cup {assignee}]

\* "UPDATE task SET resolved=resolved-{?}, rejected=rejected+{?} ... IF EXISTS"
VoteRejected(row, assignee) ==
    [row EXCEPT !.resolved = @ \ {assignee}, !.rejected = @ \cup {assignee}]

\* Mutant: the membership test demanding that both sets be non-empty.
ForbiddenBoth(self, assignee) ==
    /\ (self.approvers # {} /\ self.assignees # {})
    /\ assignee \notin self.approvers
    /\ assignee \notin self.assignees

\* The membership test at the head of update_resolved / update_rejected,
\* evaluated on the local Task object.
Forbidden(self, assignee) ==
    /\ (self.approvers # {} \/ self.assignees # {})
    /\ assignee \notin self.approvers
    /\ assignee \notin self.assignees

\* Mutant: decision authority granted to every voter.
CanApproveAnyone(self, assignee) == TRUE

\* can_approve of update_resolved / update_rejected.
CanApprove(self, assignee) ==
    self.approvers = {} \/ assignee \in self.approvers

\* Mutant: the approval rule without the threshold comparison.
ShouldApproveNoThreshold(self, assignee) ==
    /\ self.status # 1
    /\ (self.approvers = {} \/ assignee \in self.approvers)
    /\ Cardinality(self.resolved) > Cardinality(self.rejected)

\* Mutant: the approval rule with a strict threshold comparison.
ShouldApproveStrict(self, assignee) ==
    /\ self.status # 1
    /\ (self.approvers = {} \/ assignee \in self.approvers)
    /\ Cardinality(self.resolved) > self.threshold
    /\ Cardinality(self.resolved) > Cardinality(self.rejected)

\* The approval rule of update_resolved on the re-read local object.
ShouldApprove(self, assignee) ==
    /\ self.status # 1
    /\ CanApprove(self, assignee)
    /\ Cardinality(self.resolved) >= self.threshold
    /\ Cardinality(self.resolved) > Cardinality(self.rejected)

\* Mutant: the mirrored rule deciding only for a pending task.
ShouldRejectPendingOnly(self, assignee) ==
    /\ self.status = 0
    /\ CanApprove(self, assignee)
    /\ Cardinality(self.rejected) >= self.threshold
    /\ Cardinality(self.rejected) > Cardinality(self.resolved)

\* The mirrored rule of update_rejected.
ShouldReject(self, assignee) ==
    /\ self.status # -1
    /\ CanApprove(self, assignee)
    /\ Cardinality(self.rejected) >= self.threshold
    /\ Cardinality(self.rejected) > Cardinality(self.resolved)

\* "UPDATE task SET status=? ... IF EXISTS"
SetStatus(row, s) == [row EXCEPT !.status = s]

\* History of the row's vote states, kept beside every write of the row.
Approvable(row) ==
    /\ row.exists
    /\ Cardinality(row.resolved) >= row.threshold
    /\ Cardinality(row.resolved) > Cardinality(row.rejected)

Rejectable(row) ==
    /\ row.exists
    /\ Cardinality(row.rejected) >= row.threshold
    /\ Cardinality(row.rejected) > Cardinality(row.resolved)

Track(row) ==
    hist' = [approvable |-> hist.approvable \/ Approvable(row),
             rejectable |-> hist.rejectable \/ Rejectable(row)]

\* Mutant: ack without its idempotence test.
AckNoopNever(doc, status) == FALSE

\* ack's idempotence test: the stored status already is the requested one.
AckNoop(doc, status) == doc.status = status

\* Mutant: ack without the test of the requested status.
AckEnterAnyStatus(r0) ==
    LET r1 == [r0 EXCEPT !.doc = notif[r0.uid]] IN
    IF ~notif[r0.uid].exists THEN Finish(r0, "404")
    ELSE IF AckNoop(r1.doc, r0.status) THEN Finish(r1, "false")
    ELSE IF r0.status = 1 THEN [r1 EXCEPT !.pc = "res_get"]
    ELSE IF Forbidden(r1.self, r0.uid) THEN Finish(r1, "403")
    ELSE [r1 EXCEPT !.pc = "rej_vote"]

\* ------------------------------------------------------------------ ack
\* api::task::ack up to and including doc.get_one: input validation, the
\* notification read, the idempotence test, and (for a reject) the membership
\* test update_rejected makes on its fresh Task::with_pk object before its
\* first store call.
AckEnter(r0) ==
    LET r1 == [r0 EXCEPT !.doc = notif[r0.uid]] IN
    IF r0.status # -1 /\ r0.status # 1 THEN Finish(r0, "400")
    ELSE IF ~notif[r0.uid].exists THEN Finish(r0, "404")
    ELSE IF AckNoop(r1.doc, r0.status) THEN Finish(r1, "false")
    ELSE IF r0.status = 1 THEN [r1 EXCEPT !.pc = "res_get"]
    ELSE IF Forbidden(r1.self, r0.uid) THEN Finish(r1, "403")
    ELSE [r1 EXCEPT !.pc = "rej_vote"]

\* An ack with any recipient and any status of the i8 range that matters.
AckGetOne(p) ==
    /\ req[p].op = "idle"
    /\ \E uid \in Ids, st \in {-1, 0, 1} :
         req' = [req EXCEPT ![p] =
                    AckEnter([ReqIdle EXCEPT !.overlap = InFlight(p), !.op = "ack",
                                             !.uid = uid, !.status = st,
                                             !.message = p])]
    /\ UNCHANGED <<task, notif, gnotif, other, now, hist>>

\* The statuses a caller may send: the i8 values around the valid range.
StatusChoices == -2..2

\* An ack with any recipient and a status within or outside the valid range.
AckAnyStatus(p) ==
    /\ req[p].op = "idle"
    /\ \E uid \in Ids, st \in StatusChoices :
         req' = [req EXCEPT ![p] =
                    AckEnter([ReqIdle EXCEPT !.overlap = InFlight(p), !.op = "ack",
                                             !.uid = uid, !.status = st,
                                             !.message = p])]
    /\ UNCHANGED <<task, notif, gnotif, other, now, hist>>

\* An ack that failed after its vote statement was applied and may be
\* repeated by its caller.
Repeatable(r) ==
    /\ r.op = "ack" /\ r.pc = "done" /\ r.result = "500"
    /\ r.applied /\ ~r.repeat

\* Another request is in flight, or failed and may still be repeated.
Unsettled(p) ==
    InFlight(p) \/ \E q \in Procs \ {p} : Repeatable(req[q])

\* An ack as in AckGetOne, with the stored task row kept as history.
AckFirst(p) ==
    /\ req[p].op = "idle"
    /\ \E uid \in Ids, st \in {-1, 1} :
         req' = [req EXCEPT ![p] =
                    AckEnter([ReqIdle EXCEPT !.overlap = Unsettled(p), !.op = "ack",
                                             !.uid = uid, !.status = st,
                                             !.message = p, !.before = task])]
    /\ UNCHANGED <<task, notif, gnotif, other, now, hist>>

\* The caller of a failed ack sends the same ack again.
AckAgain(p) ==
    /\ Repeatable(req[p])
    /\ req' = [req EXCEPT ![p] =
                  AckEnter([ReqIdle EXCEPT !.overlap = req[p].overlap \/ Unsettled(p),
                                           !.op = "ack",
                                           !.uid = req[p].uid, !.status = req[p].status,
                                           !.message = req[p].message,
                                           !.before = req[p].before, !.repeat = TRUE])]
    /\ UNCHANGED <<task, notif, gnotif, other, now, hist>>

\* Mutant: ack discarding the error of the vote operation and going on to the
\* notification update.
ResolvedGetOneIgnored(p) ==
    /\ req[p].pc = "res_get"
    /\ LET r == req[p]
           s == Fill(r.self, task, {"approvers", "assignees"})
       IN  req' = [req EXCEPT ![p] =
               IF ~task.exists THEN [r EXCEPT !.pc = "ack_update"]
               ELSE IF Forbidden(s, r.uid) THEN [r EXCEPT !.self = s, !.pc = "ack_update"]
               ELSE [r EXCEPT !.self = s, !.pc = "res_vote"]]
    /\ UNCHANGED <<task, notif, gnotif, other, now, hist>>

\* update_resolved: get_one(approvers, assignees) and the membership test.
ResolvedGetOne(p) ==
    /\ req[p].pc = "res_get"
    /\ LET r == req[p]
           s == Fill(r.self, task, {"approvers", "assignees"})
       IN  req' = [req EXCEPT ![p] =
               IF ~task.exists THEN Finish(r, "404")
               ELSE IF Forbidden(s, r.uid) THEN Finish([r EXCEPT !.self = s], "403")
               ELSE [r EXCEPT !.self = s, !.pc = "res_vote"]]
    /\ UNCHANGED <<task, notif, gnotif, other, now, hist>>

\* Mutant: the resolve statement without IF EXISTS, an upsert.
ResolvedVoteUpsert(p) ==
    /\ req[p].pc = "res_vote"
    /\ task' = VoteResolved([task EXCEPT !.exists = TRUE], req[p].uid)
    /\ req' = [req EXCEPT ![p].pc = "res_reread", ![p].applied = TRUE]
    /\ Track(task')
    /\ UNCHANGED <<notif, gnotif, other, now>>

\* update_resolved: the vote statement, IF EXISTS.
ResolvedVote(p) ==
    /\ req[p].pc = "res_vote"
    /\ IF task.exists
       THEN /\ task' = VoteResolved(task, req[p].uid)
            /\ req' = [req EXCEPT ![p].pc = "res_reread", ![p].applied = TRUE]
       ELSE /\ task' = task
            /\ req' = [req EXCEPT ![p] = Finish(@, "409")]
    /\ Track(task')
    /\ UNCHANGED <<notif, gnotif, other, now>>

\* Mutant: update_resolved evaluating the rule without the re-read, on the
\* object as the first read left it.
ResolvedRereadSkipped(p) ==
    /\ req[p].pc = "res_reread"
    /\ LET r == req[p]
           s == r.self
       IN  req' = [req EXCEPT ![p] =
               IF ~task.exists THEN Finish(r, "404")
               ELSE IF ShouldApprove(s, r.uid) THEN [r EXCEPT !.self = s, !.pc = "res_status"]
               ELSE [r EXCEPT !.self = s, !.pc = "ack_update"]]
    /\ UNCHANGED <<task, notif, gnotif, other, now, hist>>

\* update_resolved: get_one(threshold, status, resolved, rejected) and the
\* evaluation of the approval rule on the local object.
ResolvedReread(p) ==
    /\ req[p].pc = "res_reread"
    /\ LET r == req[p]
           s == Fill(r.self, task, {"threshold", "status", "resolved", "rejected"})
       IN  req' = [req EXCEPT ![p] =
               IF ~task.exists THEN Finish(r, "404")
               ELSE IF ShouldApprove(s, r.uid) THEN [r EXCEPT !.self = s, !.pc = "res_status"]
               ELSE [r EXCEPT !.self = s, !.pc = "ack_update"]]
    /\ UNCHANGED <<task, notif, gnotif, other, now, hist>>

\* Mutant: the approval write applied only while the stored votes still
\* satisfy the counts of the rule.
ResolvedStatusRevalidated(p) ==
    /\ req[p].pc = "res_status"
    /\ IF task.exists
       THEN /\ task' = IF Approvable(task) THEN SetStatus(task, 1) ELSE task
            /\ req' = [req EXCEPT ![p].pc = "ack_update"]
       ELSE /\ task' = task
            /\ req' = [req EXCEPT ![p] = Finish(@, "409")]
    /\ Track(task')
    /\ UNCHANGED <<notif, gnotif, other, now>>

\* update_resolved: "UPDATE task SET status=1 ... IF EXISTS".
ResolvedStatus(p) ==
    /\ req[p].pc = "res_status"
    /\ IF task.exists
       THEN /\ task' = SetStatus(task, 1)
            /\ req' = [req EXCEPT ![p].pc = "ack_update"]
       ELSE /\ task' = task
            /\ req' = [req EXCEPT ![p] = Finish(@, "409")]
    /\ Track(task')
    /\ UNCHANGED <<notif, gnotif, other, now>>

\* update_rejected: the vote statement, IF EXISTS.
RejectedVote(p) ==
    /\ req[p].pc = "rej_vote"
    /\ IF task.exists
       THEN /\ task' = VoteRejected(task, req[p].uid)
            /\ req' = [req EXCEPT ![p].pc = "rej_reread", ![p].applied = TRUE]
       ELSE /\ task' = task
            /\ req' = [req EXCEPT ![p] = Finish(@, "409")]
    /\ Track(task')
    /\ UNCHANGED <<notif, gnotif, other, now>>

\* update_rejected: the re-read and the evaluation of the mirrored rule.
RejectedReread(p) ==
    /\ req[p].pc = "rej_reread"
    /\ LET r == req[p]
           s == Fill(r.self, task, {"threshold", "status", "resolved", "rejected"})
       IN  req' = [req EXCEPT ![p] =
               IF ~task.exists THEN Finish(r, "404")
               ELSE IF ShouldReject(s, r.uid) THEN [r EXCEPT !.self = s, !.pc = "rej_status"]
               ELSE [r EXCEPT !.self = s, !.pc = "ack_update"]]
    /\ UNCHANGED <<task, notif, gnotif, other, now, hist>>

\* update_rejected: "UPDATE task SET status=-1 ... IF EXISTS".
RejectedStatus(p) ==
    /\ req[p].pc = "rej_status"
    /\ IF task.exists
       THEN /\ task' = SetStatus(task, -1)
            /\ req' = [req EXCEPT ![p].pc = "ack_update"]
       ELSE /\ task' = task
            /\ req' = [req EXCEPT ![p] = Finish(@, "409")]
    /\ Track(task')
    /\ UNCHANGED <<notif, gnotif, other, now>>

\* Mutant: Notification::update storing the status and not the message.
AckUpdateStatusOnly(p) ==
    /\ req[p].pc = "ack_update"
    /\ LET r == req[p]
           d == [r.doc EXCEPT !.status = r.status, !.message = r.message]
       IN  IF notif[r.uid].exists
           THEN /\ notif' = [notif EXCEPT ![r.uid] = [@ EXCEPT !.status = d.status]]
                /\ req' = [req EXCEPT ![p] = Finish([r EXCEPT !.doc = d], "true")]
           ELSE /\ notif' = notif
                /\ req' = [req EXCEPT ![p] = Finish([r EXCEPT !.doc = d], "409")]
    /\ UNCHANGED <<task, gnotif, other, now, hist>>

\* ack: doc.status / doc.message take the input, then Notification::update,
\* "UPDATE notification SET status=?,message=? ... IF EXISTS".
AckUpdate(p) ==
    /\ req[p].pc = "ack_update"
    /\ LET r == req[p]
           d == [r.doc EXCEPT !.status = r.status, !.message = r.message]
       IN  IF notif[r.uid].exists
           THEN /\ notif' = [notif EXCEPT ![r.uid] =
                                 [@ EXCEPT !.status = d.status, !.message = d.message]]
                /\ req' = [req EXCEPT ![p] = Finish([r EXCEPT !.doc = d], "true")]
           ELSE /\ notif' = notif
                /\ req' = [req EXCEPT ![p] = Finish([r EXCEPT !.doc = d], "409")]
    /\ UNCHANGED <<task, gnotif, other, now, hist>>

\* ------------------------------------------------- version-checked writes
\* Mutant: the conditional UPDATE checking existence only.
CasIfExists(row, expected) == row.exists

\* The condition "IF updated_at=?" of a conditional UPDATE: applied only to a
\* present row whose updated_at equals the expected value.
CasApplies(row, expected) ==
    row.exists /\ row.updated_at = expected

\* Mutant: the scalar update leaving updated_at as it was.
SetScalarsKeepStamp(row, keys, val, stamp) ==
    [row EXCEPT !.duedate = IF "duedate" \in keys THEN val ELSE @,
                !.message = IF "message" \in keys THEN val ELSE @]

\* "UPDATE task SET updated_at=?, <field>=?, ... " of Task::update.
SetScalars(row, keys, val, stamp) ==
    [row EXCEPT !.updated_at = stamp,
                !.duedate = IF "duedate" \in keys THEN val ELSE @,
                !.message = IF "message" \in keys THEN val ELSE @]

\* Mutant: the removal write without the new stamp.
RemoveAssigneesNoStamp(row, remove, stamp) ==
    [row EXCEPT !.assignees = @ \ remove]

\* "assignees=assignees-{...}, updated_at=?" of update_assignees.
RemoveAssignees(row, remove, stamp) ==
    [row EXCEPT !.assignees = @ \ remove, !.updated_at = stamp]

\* "assignees=assignees+{...}, updated_at=?" of update_assignees.
AddAssignees(row, add, stamp) ==
    [row EXCEPT !.assignees = @ \cup add, !.updated_at = stamp]

\* The version tokens a caller may pass: stamps it can have fetched earlier,
\* which are clock readings not after the present one.
Tokens == 0..now

\* The column sets a caller may pass to Task::update; "status" stands for
\* every name outside valid_fields.
ColsChoices == {{"duedate"}, {"message"}, {"duedate", "message"}, {"status"}}

\* Task::update up to the conditional write: validation of the field names,
\* get_one(status, updated_at), the token comparison, the clock read.
UpdateGetOne(p) ==
    /\ req[p].op = "idle"
    /\ \E keys \in ColsChoices, token \in Tokens :
         LET r0 == [ReqIdle EXCEPT !.overlap = InFlight(p), !.op = "update", !.keys = keys, !.val = p,
                                   !.updated_at = token]
             s  == Fill(r0.self, task, {"status", "updated_at"})
         IN  req' = [req EXCEPT ![p] =
                 IF ~(keys \subseteq {"duedate", "message"}) THEN Finish(r0, "400")
                 ELSE IF ~task.exists THEN Finish(r0, "404")
                 ELSE IF s.updated_at # token THEN Finish([r0 EXCEPT !.self = s], "409")
                 ELSE [r0 EXCEPT !.self = s, !.new_updated_at = now, !.pc = "upd_write"]]
    /\ UNCHANGED <<task, notif, gnotif, other, now, hist>>

\* Task::update: "UPDATE task SET ... IF updated_at=?".
UpdateWrite(p) ==
    /\ req[p].pc = "upd_write"
    /\ LET r == req[p] IN
       IF CasApplies(task, r.updated_at)
       THEN /\ task' = SetScalars(task, r.keys, r.val, r.new_updated_at)
            /\ req' = [req EXCEPT ![p] =
                   Finish([r EXCEPT !.self.updated_at = r.new_updated_at], "true")]
       ELSE /\ task' = task
            /\ req' = [req EXCEPT ![p] = Finish(r, "409")]
    /\ Track(task')
    /\ UNCHANGED <<notif, gnotif, other, now>>

\* The remove / add lists a caller may pass to update_assignees.
IdLists == {s \in SUBSET Ids : Cardinality(s) <= 1}

\* update_assignees up to its first write: get_one(updated_at), the token
\* comparison, the clock read.
AssigneesGetOne(p) ==
    /\ req[p].op = "idle"
    /\ \E remove \in IdLists, add \in IdLists, token \in Tokens :
         LET r0 == [ReqIdle EXCEPT !.overlap = InFlight(p), !.op = "update_assignees", !.remove = remove,
                                   !.add = add, !.updated_at = token]
             s  == Fill(r0.self, task, {"updated_at"})
             r1 == [r0 EXCEPT !.self = s, !.new_updated_at = now]
         IN  req' = [req EXCEPT ![p] =
                 IF ~task.exists THEN Finish(r0, "404")
                 ELSE IF s.updated_at # token THEN Finish([r0 EXCEPT !.self = s], "409")
                 ELSE IF remove # {} THEN [r1 EXCEPT !.pc = "ua_remove"]
                 ELSE IF add # {} THEN [r1 EXCEPT !.pc = "ua_add"]
                 ELSE Finish(r1, "true")]
    /\ UNCHANGED <<task, notif, gnotif, other, now, hist>>

\* update_assignees: the removal write, IF updated_at=?.
AssigneesRemove(p) ==
    /\ req[p].pc = "ua_remove"
    /\ LET r == req[p] IN
       IF CasApplies(task, r.updated_at)
       THEN /\ task' = RemoveAssignees(task, r.remove, r.new_updated_at)
            /\ req' = [req EXCEPT ![p] =
                   IF r.add # {}
                   THEN [r EXCEPT !.updated_at = r.new_updated_at, !.applied = TRUE,
                                  !.pc = "ua_add"]
                   ELSE Finish([r EXCEPT !.updated_at = r.new_updated_at,
                                         !.applied = TRUE], "true")]
       ELSE /\ task' = task
            /\ req' = [req EXCEPT ![p] = Finish(r, "409")]
    /\ Track(task')
    /\ UNCHANGED <<notif, gnotif, other, now>>

\* update_assignees: the addition write, IF updated_at=?.
AssigneesAdd(p) ==
    /\ req[p].pc = "ua_add"
    /\ LET r == req[p] IN
       IF CasApplies(task, r.updated_at)
       THEN /\ task' = AddAssignees(task, r.add, r.new_updated_at)
            /\ req' = [req EXCEPT ![p] = Finish(r, "true")]
       ELSE /\ task' = task
            /\ req' = [req EXCEPT ![p] = Finish(r, "409")]
    /\ Track(task')
    /\ UNCHANGED <<notif, gnotif, other, now>>

\* The positions at which a vote, an update or an ack has a store call
\* after its first one.
LaterCalls ==
    {"res_get", "res_vote", "res_reread", "res_status",
     "rej_vote", "rej_reread", "rej_status", "ack_update",
     "upd_write", "ua_remove", "ua_add"}

\* Mutant: a failing store call that also takes the vote of the request back.
CallFailsUndo(p) ==
    /\ req[p].pc \in LaterCalls
    /\ req' = [req EXCEPT ![p] = Propagate(@, FALSE, @)]
    /\ task' = IF req[p].op = "ack" /\ req[p].applied
               THEN [task EXCEPT !.resolved = @ \ {req[p].uid},
                                 !.rejected = @ \ {req[p].uid}]
               ELSE task
    /\ UNCHANGED <<notif, gnotif, other, now, hist>>

\* The store call request p is about to make fails (timeout, unavailable
\* store): nothing is written and `?` ends the operation with the error.
CallFails(p) ==
    /\ req[p].pc \in LaterCalls
    /\ req' = [req EXCEPT ![p] = Propagate(@, FALSE, @)]
    /\ UNCHANGED <<task, notif, gnotif, other, now, hist>>

\* The wall clock advances.
Tick ==
    /\ now < MaxClock
    /\ now' = now + 1
    /\ UNCHANGED <<task, notif, gnotif, other, req, hist>>

\* --------------------------------------------------------------- create
\* Mutant: an INSERT without IF NOT EXISTS.
InsertAlways(row) == TRUE

\* The condition "IF NOT EXISTS" of an INSERT: applied only when no row has
\* the key.
InsertApplies(row) == ~row.exists

\* Mutant: create without the loop over the assignees.
AfterApproversStop(r) == Finish(r, "true")

\* create after the loop over doc.approvers: the loop over doc.assignees, or
\* the response.
AfterApprovers(r) ==
    IF r.self.assignees # {}
    THEN [r EXCEPT !.pc = "cr_assignees", !.rows = r.self.assignees]
    ELSE Finish(r, "true")

\* create after the group notification: the loop over doc.approvers, or what
\* follows it.
AfterGroup(r) ==
    IF r.self.approvers # {}
    THEN [r EXCEPT !.pc = "cr_approvers", !.rows = r.self.approvers]
    ELSE AfterApprovers(r)

\* The roles a caller may pass as group_role: none, or one role of -1..2.
RoleChoices == {{}, {1}}

\* Task::save, "self.updated_at = unix_ms()": a clock reading taken after
\* the one that gave created_at, the clock not running backwards.
SaveStamps(created) == {t \in created..MaxClock : t <= created + 1}

\* api::task::create up to and including doc.save: the Task object built from
\* the input with created_at = updated_at = unix_ms(), stamped again by save,
\* and "INSERT INTO task ... IF NOT EXISTS".  A create that returns an error
\* drops its Task object, so its input is drawn only where the insert is
\* applied.
CreateSave(p) ==
    /\ req[p].op = "idle"
    /\ LET r0 == [ReqIdle EXCEPT !.overlap = InFlight(p), !.op = "create"] IN
       \E ok \in BOOLEAN :
         IF ok /\ InsertApplies(task)
         THEN \E threshold \in 0..MaxThreshold, approvers \in SUBSET Ids,
                 assignees \in SUBSET Ids, role \in RoleChoices,
                 stamp \in SaveStamps(now) :
                LET doc == [TaskDefault EXCEPT !.created_at = now,
                                               !.updated_at = stamp,
                                               !.threshold = threshold,
                                               !.approvers = approvers,
                                               !.assignees = assignees]
                    r1  == [r0 EXCEPT !.self = doc, !.group_role = role, !.applied = TRUE]
                IN  /\ task' = [NewTask(now, threshold, approvers, assignees)
                                   EXCEPT !.updated_at = stamp]
                    /\ now' = stamp
                    /\ req' = [req EXCEPT ![p] =
                           IF role # {} THEN [r1 EXCEPT !.pc = "cr_group"]
                           ELSE AfterGroup(r1)]
         ELSE /\ task' = task
              /\ now' = now
              /\ req' = [req EXCEPT ![p] = Propagate(r0, ok, Finish(r0, "409"))]
    /\ Track(task')
    /\ UNCHANGED <<notif, gnotif, other>>

\* create: GroupNotification::save, "INSERT ... IF NOT EXISTS", result discarded.
CreateGroup(p) ==
    /\ req[p].pc = "cr_group"
    /\ \E ok \in BOOLEAN, role \in req[p].group_role :
         /\ gnotif' = IF ok /\ InsertApplies(gnotif) THEN NewGroup(role) ELSE gnotif
         /\ req' = [req EXCEPT ![p] = Swallow(@, ok, AfterGroup(@))]
    /\ UNCHANGED <<task, notif, other, now, hist>>

\* create: one Notification::save of the loop over doc.approvers, result
\* discarded; a HashSet is visited in no particular order.
CreateApprovers(p) ==
    /\ req[p].pc = "cr_approvers"
    /\ \E id \in req[p].rows, ok \in BOOLEAN :
         LET r == [req[p] EXCEPT !.rows = @ \ {id}] IN
         /\ notif' = IF ok /\ InsertApplies(notif[id])
                     THEN [notif EXCEPT ![id] = NewNotif] ELSE notif
         /\ req' = [req EXCEPT ![p] =
                Swallow(r, ok, IF r.rows # {} THEN r ELSE AfterApprovers(r))]
    /\ UNCHANGED <<task, gnotif, other, now, hist>>

\* create: one Notification::save of the loop over doc.assignees, result
\* discarded.
CreateAssignees(p) ==
    /\ req[p].pc = "cr_assignees"
    /\ \E id \in req[p].rows, ok \in BOOLEAN :
         LET r == [req[p] EXCEPT !.rows = @ \ {id}] IN
         /\ notif' = IF ok /\ InsertApplies(notif[id])
                     THEN [notif EXCEPT ![id] = NewNotif] ELSE notif
         /\ req' = [req EXCEPT ![p] =
                Swallow(r, ok, IF r.rows # {} THEN r ELSE Finish(r, "true"))]
    /\ UNCHANGED <<task, gnotif, other, now, hist>>

\* ---------------------------------------------------- notification deletes
\* A row matches the optional status filter of batch_delete_by_uid.
Matches(row, filter) == row.exists /\ (filter = {} \/ row.status \in filter)

\* Mutant: the filtered statement deleting whatever the status is.
DeleteWhereAny(rows, uid, filter) == [rows EXCEPT ![uid] = NoNotif]

\* "DELETE FROM notification WHERE uid=? AND status=?" / "... WHERE uid=?" on
\* the rows of one task.
DeleteWhere(rows, uid, filter) ==
    [rows EXCEPT ![uid] = IF Matches(@, filter) THEN NoNotif ELSE @]

\* "DELETE FROM notification WHERE uid=? AND tid=? AND sender=?"
DeleteNotification(rows, uid) == [rows EXCEPT ![uid] = NoNotif]

\* The task ids a caller may name: the task of this model or the other one.
Tids == {"task", "other"}

\* The status filters a caller may pass: none, or one status.
FilterChoices == {{}, {-1}, {0}, {1}}

\* Mutant: the notification delete removing the task row as well.
NotificationDeleteCascade(p) ==
    /\ req[p].op = "idle"
    /\ \E uid \in Ids, tid \in Tids, given \in BOOLEAN, ok \in BOOLEAN :
         LET r0 == [ReqIdle EXCEPT !.overlap = InFlight(p), !.op = "notif_delete",
                                   !.uid = uid, !.tid = tid]
             applies == given /\ ok
         IN  /\ notif' = IF applies /\ tid = "task" THEN DeleteNotification(notif, uid) ELSE notif
             /\ other' = IF applies /\ tid = "other" THEN DeleteNotification(other, uid) ELSE other
             /\ task' = IF applies THEN NoTask ELSE task
             /\ req' = [req EXCEPT ![p] =
                    IF ~given THEN Finish(r0, "400")
                    ELSE Propagate(r0, ok, Finish(r0, "true"))]
    /\ UNCHANGED <<gnotif, now, hist>>

\* api::notification::delete: tid and sender are required, then
\* Notification::delete of the one row with that key.
NotificationDelete(p) ==
    /\ req[p].op = "idle"
    /\ \E uid \in Ids, tid \in Tids, given \in BOOLEAN, ok \in BOOLEAN :
         LET r0 == [ReqIdle EXCEPT !.overlap = InFlight(p), !.op = "notif_delete",
                                   !.uid = uid, !.tid = tid]
             applies == given /\ ok
         IN  /\ notif' = IF applies /\ tid = "task" THEN DeleteNotification(notif, uid) ELSE notif
             /\ other' = IF applies /\ tid = "other" THEN DeleteNotification(other, uid) ELSE other
             /\ req' = [req EXCEPT ![p] =
                    IF ~given THEN Finish(r0, "400")
                    ELSE Propagate(r0, ok, Finish(r0, "true"))]
    /\ UNCHANGED <<task, gnotif, now, hist>>

\* api::notification::batch_delete: Notification::batch_delete_by_uid with the
\* optional status filter, over the recipient's rows of every task.
NotificationBatchDelete(p) ==
    /\ req[p].op = "idle"
    /\ \E uid \in Ids, filter \in FilterChoices, ok \in BOOLEAN :
         LET r0 == [ReqIdle EXCEPT !.overlap = InFlight(p), !.op = "notif_batch_delete",
                                   !.uid = uid, !.filter = filter]
         IN  /\ notif' = IF ok THEN DeleteWhere(notif, uid, filter) ELSE notif
             /\ other' = IF ok THEN DeleteWhere(other, uid, filter) ELSE other
             /\ req' = [req EXCEPT ![p] = Propagate(r0, ok, Finish(r0, "true"))]
    /\ UNCHANGED <<task, gnotif, now, hist>>

\* ----------------------------------------------------------- task delete
\* Mutant: a task delete statement that removes nothing.
DeleteTaskKeep(row) == row

\* "DELETE FROM task WHERE uid=? AND id=?"
DeleteTask(row) == NoTask

\* The rows one scan of batch_delete_by_tid returns: the recipients of every
\* notification of the task, up to its LIMIT.
ScanLimit == 1000

ScanByTid ==
    LET found == {i \in Ids : notif[i].exists} IN
    IF Cardinality(found) <= ScanLimit THEN found
    ELSE CHOOSE s \in SUBSET found : Cardinality(s) = ScanLimit

\* api::task::delete up to and including doc.get_one(gid): the id is
\* required; a row that cannot be fetched ends the handler with false.
DeleteGetOne(p) ==
    /\ req[p].op = "idle"
    /\ \E given \in BOOLEAN, ok \in BOOLEAN :
         LET r0 == [ReqIdle EXCEPT !.overlap = InFlight(p), !.op = "delete"]
             r1 == [r0 EXCEPT !.failed = ~ok]
         IN  req' = [req EXCEPT ![p] =
                 IF ~given THEN Finish(r0, "400")
                 ELSE IF ~ok \/ ~task.exists THEN Finish(r1, "false")
                 ELSE [r1 EXCEPT !.self = Fill(r0.self, task, {"gid"}), !.pc = "del_get"]]
    /\ UNCHANGED <<task, notif, gnotif, other, now, hist>>

\* Task::delete: get_one of every column; when it fails Task::delete returns
\* Ok(false), which the handler does not look at.
DeleteGetAll(p) ==
    /\ req[p].pc = "del_get"
    /\ \E ok \in BOOLEAN :
         LET r == req[p] IN
         req' = [req EXCEPT ![p] =
             IF ~ok \/ ~task.exists
             THEN [r EXCEPT !.failed = @ \/ ~ok, !.pc = "del_group"]
             ELSE [r EXCEPT !.self = Fill(r.self, task, {}), !.pc = "del_row"]]
    /\ UNCHANGED <<task, notif, gnotif, other, now, hist>>

\* Task::delete: the delete statement, its failure propagated by the handler.
DeleteRow(p) ==
    /\ req[p].pc = "del_row"
    /\ \E ok \in BOOLEAN :
         /\ task' = IF ok THEN DeleteTask(task) ELSE task
         /\ req' = [req EXCEPT ![p] =
                Propagate(@, ok, [@ EXCEPT !.applied = TRUE, !.pc = "del_group"])]
    /\ Track(task')
    /\ UNCHANGED <<notif, gnotif, other, now>>

\* delete: GroupNotification::delete, result discarded.
DeleteGroup(p) ==
    /\ req[p].pc = "del_group"
    /\ \E ok \in BOOLEAN :
         /\ gnotif' = IF ok THEN NoGroup ELSE gnotif
         /\ req' = [req EXCEPT ![p] = Swallow(@, ok, [@ EXCEPT !.pc = "purge_scan"])]
    /\ UNCHANGED <<task, notif, other, now, hist>>

\* batch_delete_by_tid: one scan of the loop; a failed scan is propagated by
\* batch_delete_by_tid and by the handler, an empty one ends the loop.
PurgeScan(p) ==
    /\ req[p].pc = "purge_scan"
    /\ \E ok \in BOOLEAN :
         LET r == req[p] IN
         req' = [req EXCEPT ![p] =
             Propagate(r, ok,
                 IF ScanByTid = {} THEN Finish(r, "true")
                 ELSE [r EXCEPT !.rows = ScanByTid, !.pc = "purge_row"])]
    /\ UNCHANGED <<task, notif, gnotif, other, now, hist>>

\* batch_delete_by_tid: Notification::delete of one scanned row, result
\* discarded; after the last row the loop scans again.
PurgeRow(p) ==
    /\ req[p].pc = "purge_row"
    /\ \E id \in req[p].rows, ok \in BOOLEAN :
         LET r == [req[p] EXCEPT !.rows = @ \ {id}] IN
         /\ notif' = IF ok THEN DeleteNotification(notif, id) ELSE notif
         /\ req' = [req EXCEPT ![p] =
                Swallow(r, ok, IF r.rows # {} THEN r ELSE [r EXCEPT !.pc = "purge_scan"])]
    /\ UNCHANGED <<task, gnotif, other, now, hist>>

\* ---------------------------------------------------------------- lists
\* Task ids in the order of the clustering key: the task of this model was
\* created after the other one.
TidRank(tid) == IF tid = "task" THEN 2 ELSE 1

\* The page tokens a caller may pass: none, or an id below, between or above
\* the stored ones.
TokenChoices == {{}} \cup {{c} : c \in 1..3}

\* The rows of a partition as the store returns them, greatest id first.
RECURSIVE Descending(_)
Descending(rows) ==
    IF rows = {} THEN <<>>
    ELSE LET top == CHOOSE r \in rows : \A o \in rows : TidRank(o.tid) <= TidRank(r.tid)
         IN  <<top>> \o Descending(rows \ {top})

\* "LIMIT ?"
Limit(seq, n) == SubSeq(seq, 1, IF Len(seq) < n THEN Len(seq) ELSE n)

\* What a statement whose values are bound to the wrong markers can give:
\* the store refuses the 12-byte id bound to the one-byte column, or compares
\* and matches no row.
MisboundOutcomes == {"500", "empty"}

\* list, cursor and filter both given: "WHERE uid=? AND status=? AND tid<?
\* LIMIT ?" with the values (uid, tid, status, page_size).
ListCursorFilter(rows, page_size, c, f, out) ==
    IF out = "500" THEN [ok |-> FALSE, rows |-> <<>>] ELSE [ok |-> TRUE, rows |-> <<>>]

\* The four statements of Notification::list, Task::list and
\* GroupNotification::list on the rows of one partition.
ListRows(rows, page_size, page_token, filter, out) ==
    IF page_token # {}
    THEN LET c == CHOOSE c \in page_token : TRUE IN
         IF filter = {}
         THEN [ok |-> TRUE,
               rows |-> Limit(Descending({r \in rows : TidRank(r.tid) < c}), page_size)]
         ELSE ListCursorFilter(rows, page_size, c, CHOOSE f \in filter : TRUE, out)
    ELSE IF filter = {}
         THEN [ok |-> TRUE, rows |-> Limit(Descending(rows), page_size)]
         ELSE [ok |-> TRUE,
               rows |-> Limit(Descending({r \in rows : r.status \in filter}), page_size)]

\* "if res.len() >= page_size { token_from_xid(res.last().id) } else { None }"
NextPageToken(res, page_size) ==
    IF Len(res) >= page_size THEN {TidRank(res[Len(res)].tid)} ELSE {}

\* The notification rows of recipient uid.
NotificationPartition(uid) ==
    (IF notif[uid].exists
     THEN {[tid |-> "task", status |-> notif[uid].status]} ELSE {})
    \cup (IF other[uid].exists
          THEN {[tid |-> "other", status |-> other[uid].status]} ELSE {})

\* The task rows of the owner.
TaskPartition ==
    IF task.exists THEN {[tid |-> "task", status |-> task.status]} ELSE {}

\* The group notification rows of the group.
GroupPartition ==
    IF gnotif.exists THEN {[tid |-> "task", status |-> gnotif.role]} ELSE {}

\* A list request with its Pagination input.
ListInput(p, op, uid, page_size, page_token, filter) ==
    [ReqIdle EXCEPT !.overlap = InFlight(p), !.op = op, !.uid = uid,
                    !.page_size = page_size, !.page_token = page_token,
                    !.filter = filter]

\* api::notification::list: Notification::list, the next page token, and
\* Task::get_one for every row of the page; the task of the other rows
\* exists.
NotificationList(p) ==
    /\ req[p].op = "idle"
    /\ \E uid \in Ids, page_size \in 1..MaxPage, page_token \in TokenChoices,
          filter \in FilterChoices, out \in MisboundOutcomes :
         LET r0  == ListInput(p, "notif_list", uid, page_size, page_token, filter)
             res == ListRows(NotificationPartition(uid), page_size, page_token, filter, out)
         IN  req' = [req EXCEPT ![p] =
                 IF ~res.ok THEN Finish(r0, "500")
                 ELSE IF \E i \in 1..Len(res.rows) :
                            res.rows[i].tid = "task" /\ ~task.exists
                 THEN Finish(r0, "404")
                 ELSE Finish([r0 EXCEPT !.page = res.rows,
                                        !.next_page_token =
                                            NextPageToken(res.rows, page_size)],
                             "true")]
    /\ UNCHANGED <<task, notif, gnotif, other, now, hist>>

\* api::task::list: Task::list and the next page token.
TaskList(p) ==
    /\ req[p].op = "idle"
    /\ \E page_size \in 1..MaxPage, page_token \in TokenChoices,
          filter \in FilterChoices, out \in MisboundOutcomes :
         LET r0  == ListInput(p, "task_list", 0, page_size, page_token, filter)
             res == ListRows(TaskPartition, page_size, page_token, filter, out)
         IN  req' = [req EXCEPT ![p] =
                 IF ~res.ok THEN Finish(r0, "500")
                 ELSE Finish([r0 EXCEPT !.page = res.rows,
                                        !.next_page_token =
                                            NextPageToken(res.rows, page_size)],
                             "true")]
    /\ UNCHANGED <<task, notif, gnotif, other, now, hist>>

\* GroupNotification::list, with a role for its filter.
GroupList(p) ==
    /\ req[p].op = "idle"
    /\ \E page_size \in 1..MaxPage, page_token \in TokenChoices,
          filter \in FilterChoices, out \in MisboundOutcomes :
         LET r0  == ListInput(p, "group_list", 0, page_size, page_token, filter)
             res == ListRows(GroupPartition, page_size, page_token, filter, out)
         IN  req' = [req EXCEPT ![p] =
                 IF ~res.ok THEN Finish(r0, "500")
                 ELSE Finish([r0 EXCEPT !.page = res.rows], "true")]
    /\ UNCHANGED <<task, notif, gnotif, other, now, hist>>

\* ------------------------------------------------------- specifications
\* The state right after a create whose fan-out wrote every notification:
\* a pending task without votes and one notification per approver/assignee.
Init ==
    /\ \E threshold \in 0..MaxThreshold, approvers \in SUBSET Ids, assignees \in SUBSET Ids :
         /\ task = NewTask(0, threshold, approvers, assignees)
         /\ notif = [i \in Ids |-> IF i \in approvers \cup assignees
                                   THEN NewNotif ELSE NoNotif]
    /\ gnotif = NoGroup
    /\ other = [i \in Ids |-> NoNotif]
    /\ now = 0
    /\ req = [p \in Procs |-> ReqIdle]
    /\ hist = [approvable |-> Approvable(task), rejectable |-> Rejectable(task)]

\* Votes (through ack) concurrent with assignee updates.
Next ==
    \E p \in Procs :
        \/ AckGetOne(p)
        \/ ResolvedGetOne(p)
        \/ ResolvedVote(p)
        \/ ResolvedReread(p)
        \/ ResolvedStatus(p)
        \/ RejectedVote(p)
        \/ RejectedReread(p)
        \/ RejectedStatus(p)
        \/ AckUpdate(p)
        \/ AssigneesGetOne(p)
        \/ AssigneesRemove(p)
        \/ AssigneesAdd(p)

Spec == Init /\ [][Next]_vars

\* Scalar and assignee updates under a moving clock, on a task with one
\* approver and one assignee.
InitUpdate ==
    /\ task = NewTask(0, 1, {1}, {NumIds})
    /\ notif = [i \in Ids |-> IF i \in {1, NumIds} THEN NewNotif ELSE NoNotif]
    /\ gnotif = NoGroup
    /\ other = [i \in Ids |-> NoNotif]
    /\ now = 0
    /\ req = [p \in Procs |-> ReqIdle]
    /\ hist = [approvable |-> Approvable(task), rejectable |-> Rejectable(task)]

NextUpdate ==
    \/ Tick
    \/ \E p \in Procs :
        \/ UpdateGetOne(p)
        \/ UpdateWrite(p)
        \/ AssigneesGetOne(p)
        \/ AssigneesRemove(p)
        \/ AssigneesAdd(p)

SpecUpdate == InitUpdate /\ [][NextUpdate]_vars

\* The same updates with failing store calls.
NextUpdateFail ==
    \/ NextUpdate
    \/ \E p \in Procs : CallFails(p)

SpecUpdateFail == InitUpdate /\ [][NextUpdateFail]_vars

\* The state after a create with one approver and one assignee, the
\* threshold within or beyond the reach of one vote.
InitRepeat ==
    /\ \E threshold \in {1, MaxThreshold} :
         task = NewTask(0, threshold, {1}, {NumIds})
    /\ notif = [i \in Ids |-> IF i \in {1, NumIds} THEN NewNotif ELSE NoNotif]
    /\ gnotif = NoGroup
    /\ other = [i \in Ids |-> NoNotif]
    /\ now = 0
    /\ req = [p \in Procs |-> ReqIdle]
    /\ hist = [approvable |-> Approvable(task), rejectable |-> Rejectable(task)]

\* Votes with failing store calls, a failed ack being repeated by its caller.
NextRepeat ==
    \E p \in Procs :
        \/ AckFirst(p)
        \/ AckAgain(p)
        \/ ResolvedGetOne(p)
        \/ ResolvedVote(p)
        \/ ResolvedReread(p)
        \/ ResolvedStatus(p)
        \/ RejectedVote(p)
        \/ RejectedReread(p)
        \/ RejectedStatus(p)
        \/ AckUpdate(p)
        \/ CallFails(p)

SpecRepeat == InitRepeat /\ [][NextRepeat]_vars

\* The notification rows another task can have left for the recipients:
\* absent, or present with any status an ack can have stored.
OtherRows ==
    {NoNotif} \cup {[exists |-> TRUE, status |-> s, message |-> 0] : s \in {-1, 0, 1}}

\* Creates of the same task key on an empty store, with failing store calls.
InitCreate ==
    /\ task = NoTask
    /\ notif = [i \in Ids |-> NoNotif]
    /\ gnotif = NoGroup
    /\ other = [i \in Ids |-> NoNotif]
    /\ now = 0
    /\ req = [p \in Procs |-> ReqIdle]
    /\ hist = [approvable |-> FALSE, rejectable |-> FALSE]

NextCreate ==
    \E p \in Procs :
        \/ CreateSave(p)
        \/ CreateGroup(p)
        \/ CreateApprovers(p)
        \/ CreateAssignees(p)

SpecCreate == InitCreate /\ [][NextCreate]_vars

\* Votes concurrent with the delete of the task, on a task with one approver
\* and one assignee, with or without a group notification.
InitDelete ==
    /\ task = NewTask(0, 1, {1}, {NumIds})
    /\ notif = [i \in Ids |-> IF i \in {1, NumIds} THEN NewNotif ELSE NoNotif]
    /\ gnotif \in {NoGroup, NewGroup(1)}
    /\ other = [i \in Ids |-> NoNotif]
    /\ now = 0
    /\ req = [p \in Procs |-> ReqIdle]
    /\ hist = [approvable |-> Approvable(task), rejectable |-> Rejectable(task)]

NextDelete ==
    \E p \in Procs :
        \/ AckGetOne(p)
        \/ ResolvedGetOne(p)
        \/ ResolvedVote(p)
        \/ ResolvedReread(p)
        \/ ResolvedStatus(p)
        \/ RejectedVote(p)
        \/ RejectedReread(p)
        \/ RejectedStatus(p)
        \/ AckUpdate(p)
        \/ DeleteGetOne(p)
        \/ DeleteGetAll(p)
        \/ DeleteRow(p)
        \/ DeleteGroup(p)
        \/ PurgeScan(p)
        \/ PurgeRow(p)

SpecDelete == InitDelete /\ [][NextDelete]_vars

\* The steps of a task delete.
DeleteStep(p) ==
    \/ DeleteGetOne(p)
    \/ DeleteGetAll(p)
    \/ DeleteRow(p)
    \/ DeleteGroup(p)
    \/ PurgeScan(p)
    \/ PurgeRow(p)

NextTeardown == \E p \in Procs : DeleteStep(p)

\* Task deletes with failing store calls in which every store call returns:
\* a request that has a step to take takes it.
SpecTeardown ==
    /\ InitDelete
    /\ [][NextTeardown]_vars
    /\ \A p \in Procs : WF_vars(DeleteStep(p))

\* A create and the delete of the task it has stored, on an empty store.
NextOrphan ==
    \E p \in Procs :
        \/ CreateSave(p)
        \/ CreateGroup(p)
        \/ CreateApprovers(p)
        \/ CreateAssignees(p)
        \/ DeleteGetOne(p)
        \/ DeleteGetAll(p)
        \/ DeleteRow(p)
        \/ DeleteGroup(p)
        \/ PurgeScan(p)
        \/ PurgeRow(p)

SpecOrphan == InitCreate /\ [][NextOrphan]_vars

\* Votes with any requested status, scalar and assignee updates and the
\* delete of the task.
NextStatus ==
    \E p \in Procs :
        \/ AckAnyStatus(p)
        \/ ResolvedGetOne(p)
        \/ ResolvedVote(p)
        \/ ResolvedReread(p)
        \/ ResolvedStatus(p)
        \/ RejectedVote(p)
        \/ RejectedReread(p)
        \/ RejectedStatus(p)
        \/ AckUpdate(p)
        \/ UpdateGetOne(p)
        \/ UpdateWrite(p)
        \/ AssigneesGetOne(p)
        \/ AssigneesRemove(p)
        \/ AssigneesAdd(p)
        \/ DeleteGetOne(p)
        \/ DeleteGetAll(p)
        \/ DeleteRow(p)
        \/ DeleteGroup(p)
        \/ PurgeScan(p)
        \/ PurgeRow(p)

SpecStatus == InitDelete /\ [][NextStatus]_vars

\* Notification deletes and the delete of the task, on a task with one
\* approver and one assignee whose recipients may hold rows of another task.
InitPurge ==
    /\ task = NewTask(0, 1, {1}, {NumIds})
    /\ notif = [i \in Ids |-> IF i \in {1, NumIds} THEN NewNotif ELSE NoNotif]
    /\ gnotif = NewGroup(1)
    /\ other \in [Ids -> OtherRows]
    /\ now = 0
    /\ req = [p \in Procs |-> ReqIdle]
    /\ hist = [approvable |-> Approvable(task), rejectable |-> Rejectable(task)]

NextPurge ==
    \E p \in Procs :
        \/ NotificationDelete(p)
        \/ NotificationBatchDelete(p)
        \/ DeleteGetOne(p)
        \/ DeleteGetAll(p)
        \/ DeleteRow(p)
        \/ DeleteGroup(p)
        \/ PurgeScan(p)
        \/ PurgeRow(p)

SpecPurge == InitPurge /\ [][NextPurge]_vars

\* Votes concurrent with scalar updates under a moving clock.
NextVoteUpdate ==
    \/ Tick
    \/ \E p \in Procs :
        \/ AckGetOne(p)
        \/ ResolvedGetOne(p)
        \/ ResolvedVote(p)
        \/ ResolvedReread(p)
        \/ ResolvedStatus(p)
        \/ RejectedVote(p)
        \/ RejectedReread(p)
        \/ RejectedStatus(p)
        \/ AckUpdate(p)
        \/ UpdateGetOne(p)
        \/ UpdateWrite(p)

SpecVoteUpdate == InitUpdate /\ [][NextVoteUpdate]_vars

\* Listings of stores in which recipient 1 may hold a row of another task,
\* the task may be gone and the group notification may be missing.
InitList ==
    /\ task \in {NoTask, NewTask(0, 1, {1}, {NumIds})}
    /\ notif = [i \in Ids |-> NewNotif]
    /\ gnotif \in {NoGroup, NewGroup(1)}
    /\ \E o \in {NoNotif, [exists |-> TRUE, status |-> 1, message |-> 0]} :
         other = [i \in Ids |-> IF i = 1 THEN o ELSE NoNotif]
    /\ now = 0
    /\ req = [p \in Procs |-> ReqIdle]
    /\ hist = [approvable |-> Approvable(task), rejectable |-> Rejectable(task)]

NextList ==
    \E p \in Procs :
        \/ NotificationList(p)
        \/ TaskList(p)
        \/ GroupList(p)

SpecList == InitList /\ [][NextList]_vars

\* ------------------------------------------------------------ properties
IsAck(r) == r.op = "ack"

\* An ack whose vote statement has been applied to the task row.
PastVote(r) ==
    /\ IsAck(r)
    /\ \/ r.pc \in {"res_reread", "res_status", "rej_reread", "rej_status", "ack_update"}
       \/ r.pc = "done" /\ r.result = "true"

\* The voter of request r is in the set r voted for.
InVotedSet(r) ==
    IF r.status = 1 THEN r.uid \in task.resolved /\ r.uid \notin task.rejected
    ELSE r.uid \in task.rejected /\ r.uid \notin task.resolved

\* C1: set exclusivity: in every reachable state no identity is in both
\* resolved and rejected of the task, whatever votes were cast and however
\* their steps interleave.
C1_SetExclusivity ==
    task.exists => task.resolved \cap task.rejected = {}

\* C1 witness: a voter who had rejected has then resolved, and is in resolved only.
C1_Witness ==
    \E p, q \in Procs :
        /\ p # q
        /\ IsAck(req[p]) /\ req[p].status = -1 /\ req[p].pc = "done" /\ req[p].result = "true"
        /\ PastVote(req[q]) /\ req[q].status = 1 /\ req[q].uid = req[p].uid
        /\ req[q].uid \in task.resolved
        /\ req[q].uid \notin task.rejected

\* C2: no vote is lost: an ack of a permitted voter that got past the
\* notification test succeeds, and once its vote statement is applied the
\* voter stays in the set voted for through every step of a concurrent vote
\* by another voter.
C2_NoVoteLost ==
    \A p \in Procs :
        /\ (IsAck(req[p]) /\ req[p].pc = "done"
              /\ req[p].result \notin {"400", "404", "403", "false"})
           => req[p].result = "true"
        /\ (PastVote(req[p])
              /\ \A q \in Procs \ {p} : IsAck(req[q]) => req[q].uid # req[p].uid)
           => InVotedSet(req[p])

\* C2 witness: two voters, one resolving and one rejecting, both past their
\* vote statement and neither finished, and both votes are in the row.
C2_Witness ==
    \E p, q \in Procs :
        /\ req[p].pc = "res_reread" /\ req[q].pc = "rej_reread"
        /\ req[p].uid # req[q].uid
        /\ req[p].uid \in task.resolved
        /\ req[q].uid \in task.rejected

\* C4: threshold correctness, only-if: the status is approved only if the row
\* was at some earlier point in a state with |resolved| >= threshold and
\* |resolved| > |rejected|, and rejected only if it was in a state with
\* |rejected| >= threshold and |rejected| > |resolved|.
C4_StatusOnlyIfCrossed ==
    /\ (task.exists /\ task.status = 1) => hist.approvable
    /\ (task.exists /\ task.status = -1) => hist.rejectable

\* C4 witness: a task of threshold 2 approved with two resolve votes.
C4_Witness ==
    /\ task.status = 1
    /\ task.threshold = 2
    /\ Cardinality(task.resolved) = 2

\* The approval condition of C5 on the snapshot s a vote re-read, for a voter
\* with decision authority by the stored approvers.
CrossedForApproval(s, uid) ==
    /\ task.approvers = {} \/ uid \in task.approvers
    /\ s.status # 1
    /\ Cardinality(s.resolved) >= s.threshold
    /\ Cardinality(s.resolved) > Cardinality(s.rejected)

\* C5: threshold correctness, if: when update_resolved returns Ok for a voter
\* with decision authority whose re-read showed status # approved,
\* |resolved| >= threshold and |resolved| > |rejected|, the status of the
\* task is approved at that return.
C5_ApprovedWhenCrossed ==
    [][\A p \in Procs :
          (/\ req[p].pc \in {"res_reread", "res_status"}
           /\ req'[p].pc = "ack_update"
           /\ CrossedForApproval(req'[p].self, req[p].uid))
          => (task'.exists /\ task'.status = 1)]_vars

\* C5 witness: threshold 2, no approvers: the second distinct resolver read a
\* pending row with two resolve votes and has returned with the task approved.
C5_Witness ==
    \E p \in Procs :
        /\ IsAck(req[p]) /\ req[p].status = 1 /\ req[p].pc = "ack_update"
        /\ task.approvers = {} /\ task.threshold = 2
        /\ req[p].self.status = 0
        /\ Cardinality(req[p].self.resolved) = 2
        /\ task.status = 1

IsUpdate(r) == r.op = "update"

\* C3: optimistic conflict rejection: of two scalar updates issued with the
\* same expected updated_at, the one the row was created with, and running
\* concurrently (one read the version while the other was in flight),
\* exactly one returns success and the other fails with 409.
C3_ExactlyOneSucceeds ==
    \A p, q \in Procs :
        (/\ p # q
         /\ IsUpdate(req[p]) /\ req[p].pc = "done" /\ req[p].result # "400"
         /\ IsUpdate(req[q]) /\ req[q].pc = "done" /\ req[q].result # "400"
         /\ req[p].updated_at = 0 /\ req[q].updated_at = 0
         /\ (req[p].overlap \/ req[q].overlap))
        => \/ req[p].result = "true" /\ req[q].result = "409"
           \/ req[p].result = "409" /\ req[q].result = "true"

\* C6: a reject vote by a voter outside the non-empty stored approvers never
\* writes status = -1.
C6_RejectNeedsAuthority ==
    [][\A p \in Procs :
          (/\ req[p].pc = "rej_status"
           /\ req'[p] # req[p]
           /\ task.approvers # {}
           /\ req[p].uid \notin task.approvers)
          => task'.status = task.status]_vars

\* The step of request p that reads approvers and assignees for a resolve
\* vote, on a present row.
ResolveCheckStep(p) ==
    /\ req[p].pc = "res_get"
    /\ req'[p] # req[p]
    /\ task.exists

\* C7 as claimed: a resolve vote fails with 403 exactly when approvers and
\* assignees are both non-empty and the voter is in neither.
C7_ForbiddenIffBothNonEmpty ==
    [][\A p \in Procs :
          ResolveCheckStep(p) =>
             ((req'[p].result = "403") <=>
                 (/\ task.approvers # {} /\ task.assignees # {}
                  /\ req[p].uid \notin task.approvers \cup task.assignees))]_vars

\* C7 as amended: a resolve vote on a present row fails with 403 exactly when
\* at least one of approvers, assignees is non-empty and the voter is in
\* neither; in every other case it goes on to the vote statement, which on a
\* present row puts the voter in resolved.
C7_ForbiddenIffMembershipNonEmpty ==
    [][\A p \in Procs :
          /\ ResolveCheckStep(p) =>
               /\ (req'[p].result = "403") <=>
                     (/\ task.approvers \cup task.assignees # {}
                      /\ req[p].uid \notin task.approvers \cup task.assignees)
               /\ req'[p].result # "403" => req'[p].pc = "res_vote"
          /\ (req[p].pc = "res_vote" /\ req'[p] # req[p] /\ task.exists) =>
               req[p].uid \in task'.resolved]_vars

\* C7 witness: a resolve vote got 403 from a task whose only non-empty
\* membership set is approvers.
C7_Witness ==
    \E p \in Procs :
        /\ IsAck(req[p]) /\ req[p].status = 1
        /\ req[p].pc = "done" /\ req[p].result = "403"
        /\ req[p].self.approvers # {} /\ req[p].self.assignees = {}
        /\ req[p].uid \notin req[p].self.approvers

\* C8: a reject vote by a voter in neither approvers nor assignees of the
\* stored task, when that membership is non-empty, fails with 403 and leaves
\* the task row unchanged.
C8_RejectForbiddenForNonMember ==
    [][\A p \in Procs :
          (/\ req[p].pc = "rej_vote"
           /\ req'[p] # req[p]
           /\ task.exists
           /\ task.approvers \cup task.assignees # {}
           /\ req[p].uid \notin task.approvers \cup task.assignees)
          => (task' = task /\ req'[p].result = "403")]_vars

\* C9: idempotent ack: an ack whose requested status equals the stored
\* status of its notification returns false at once, writing neither the task
\* nor the notification, and a finished request takes no further step.
C9_IdempotentAck ==
    [][\A p \in Procs :
          /\ (/\ req[p].op = "idle" /\ IsAck(req'[p])
              /\ req'[p].status \in {-1, 1}
              /\ notif[req'[p].uid].exists
              /\ notif[req'[p].uid].status = req'[p].status)
             => (/\ req'[p].pc = "done" /\ req'[p].result = "false"
                 /\ task' = task /\ notif' = notif)
          /\ req[p].pc = "done" => req'[p] = req[p]]_vars

\* C9 witness: an ack succeeded, and the same ack repeated with another
\* message returned false; the notification holds the first ack's message.
C9_Witness ==
    \E p, q \in Procs :
        /\ p # q
        /\ IsAck(req[p]) /\ req[p].pc = "done" /\ req[p].result = "true"
        /\ IsAck(req[q]) /\ req[q].pc = "done" /\ req[q].result = "false"
        /\ req[q].uid = req[p].uid /\ req[q].status = req[p].status
        /\ notif[req[p].uid].status = req[p].status
        /\ notif[req[p].uid].message = req[p].message
        /\ req[q].message # req[p].message

InVoteOperation(r) ==
    r.pc \in {"res_get", "res_vote", "res_reread", "res_status",
              "rej_vote", "rej_reread", "rej_status"}

ResolveWithoutAuthority(p) ==
    /\ IsAck(req[p]) /\ req[p].status = 1
    /\ req'[p] # req[p]
    /\ task.exists
    /\ task.approvers # {}
    /\ req[p].uid \notin task.approvers

\* C12: an assignee may vote but has no decision authority when approvers is
\* non-empty: a resolve vote by an assignee outside the non-empty approvers
\* passes the membership test, its vote statement puts the voter in resolved
\* and out of rejected and leaves the status as it is, its re-read never
\* leads to a status write whatever the counts and the threshold are, and
\* the ack succeeds.
C12_AssigneeVotesWithoutDeciding ==
    [][\A p \in Procs :
          ResolveWithoutAuthority(p) =>
             /\ (req[p].pc = "res_get" /\ req[p].uid \in task.assignees)
                   => req'[p].pc = "res_vote"
             /\ req[p].pc = "res_vote" =>
                   /\ req[p].uid \in task'.resolved
                   /\ req[p].uid \notin task'.rejected
                   /\ task'.status = task.status
             /\ req[p].pc = "res_reread" => req'[p].pc = "ack_update"
             /\ req[p].pc # "res_status"
             /\ req[p].pc = "ack_update" => req'[p].result = "true"]_vars

\* C12 witness: an assignee outside the approvers has resolved a pending
\* task; its re-read showed the counts of the approval rule satisfied, its
\* ack succeeded, and the task is still pending.
C12_Witness ==
    \E p \in Procs :
        /\ IsAck(req[p]) /\ req[p].status = 1
        /\ req[p].pc = "done" /\ req[p].result = "true"
        /\ task.approvers # {}
        /\ req[p].uid \in task.assignees \ task.approvers
        /\ req[p].uid \in task.resolved
        /\ Cardinality(req[p].self.resolved) >= req[p].self.threshold
        /\ Cardinality(req[p].self.resolved) > Cardinality(req[p].self.rejected)
        /\ task.status = 0

\* The voter of request p has decision authority by the stored approvers.
HasAuthority(p) == task.approvers = {} \/ req[p].uid \in task.approvers

\* C13: a terminal status is not sticky: a vote of a voter with decision
\* authority whose re-read shows the counts of its rule satisfied goes on to
\* the status write whenever the status read differs from its target, an
\* opposite terminal status included, and that write stores the target
\* whatever the status of the row is; a status equal to the target is never
\* written again.
C13_TerminalStatusNotSticky ==
    [][\A p \in Procs :
          /\ (/\ req[p].pc = "rej_reread" /\ req'[p] # req[p] /\ task.exists
              /\ HasAuthority(p)
              /\ Cardinality(task.rejected) >= task.threshold
              /\ Cardinality(task.rejected) > Cardinality(task.resolved))
             => (req'[p].pc = "rej_status" <=> task.status # -1)
          /\ (/\ req[p].pc = "res_reread" /\ req'[p] # req[p] /\ task.exists
              /\ HasAuthority(p)
              /\ Cardinality(task.resolved) >= task.threshold
              /\ Cardinality(task.resolved) > Cardinality(task.rejected))
             => (req'[p].pc = "res_status" <=> task.status # 1)
          /\ (req[p].pc = "rej_status" /\ req'[p] # req[p] /\ task.exists)
             => task'.status = -1
          /\ (req[p].pc = "res_status" /\ req'[p] # req[p] /\ task.exists)
             => task'.status = 1]_vars

\* C13 witness: a resolve vote approved the pending task, then a reject vote
\* read the approved row and the task is rejected.
C13_Witness ==
    \E p, q \in Procs :
        /\ IsAck(req[p]) /\ req[p].status = 1
        /\ req[p].pc = "done" /\ req[p].result = "true"
        /\ req[p].self.status = 0 /\ ShouldApprove(req[p].self, req[p].uid)
        /\ IsAck(req[q]) /\ req[q].status = -1
        /\ req[q].pc \in {"ack_update", "done"}
        /\ req[q].self.status = 1
        /\ task.status = -1

\* Request p takes a step of a notification delete: the single-row delete,
\* the delete by recipient, or the purge by task id inside the task delete.
NotificationDeleteStep(p) ==
    /\ req'[p] # req[p]
    /\ \/ req'[p].op \in {"notif_delete", "notif_batch_delete"}
       \/ req[p].pc \in {"purge_scan", "purge_row"}

\* C14: fan-out independence: no step of Notification::delete, of
\* batch_delete_by_uid or of batch_delete_by_tid changes the task row or the
\* group notification: status, resolved, rejected and every other task field
\* are as before the step.
C14_NotificationDeletesKeepTask ==
    [][\A p \in Procs :
          NotificationDeleteStep(p) => (task' = task /\ gnotif' = gnotif)]_vars

\* C14 witness: both notifications of the task were deleted, one by the
\* single-row delete and one by the recipient's batch delete, and the task
\* row is present with its members.
C14_Witness ==
    \E p, q \in Procs :
        /\ req[p].op = "notif_delete" /\ req[p].result = "true"
        /\ req[q].op = "notif_batch_delete" /\ req[q].result = "true"
        /\ \A i \in Ids : ~notif[i].exists
        /\ task.exists /\ task.approvers = {1} /\ task.assignees = {NumIds}
        /\ task.status = 0

\* What a batch delete for recipient uid with the given filter leaves of the
\* rows of one task: the recipient's row is gone if it had a status of the
\* filter (any status when there is no filter), every other row is as before.
ExactlyFiltered(before, after, uid, filter) ==
    \A i \in Ids :
        IF i = uid /\ before[i].exists /\ (filter = {} \/ before[i].status \in filter)
        THEN ~after[i].exists
        ELSE after[i] = before[i]

IsCreate(r) == r.op = "create"

\* The stored task is the one create builds from the input kept in r.self.
StoredAsGiven(row, r) ==
    /\ row.exists
    /\ row.status = 0
    /\ row.resolved = {} /\ row.rejected = {}
    /\ row.approvers = r.self.approvers
    /\ row.assignees = r.self.assignees
    /\ row.threshold = r.self.threshold

\* C16: a create whose insert is applied found no row and stores a pending
\* task with empty resolved and rejected and the approvers, assignees and
\* threshold of the caller, and the stored task is that one when the create
\* returns; a create that finds a row with its key, the store call not
\* failing, ends with 409 and leaves the row as it is.
C16_CreateStoresInput ==
    [][\A p \in Procs :
          /\ (req[p].op = "idle" /\ IsCreate(req'[p]) /\ req'[p].applied)
             => (~task.exists /\ StoredAsGiven(task', req'[p]))
          /\ (IsCreate(req'[p]) /\ req[p].pc # "done"
                /\ req'[p].pc = "done" /\ req'[p].result = "true")
             => StoredAsGiven(task', req'[p])
          /\ (req[p].op = "idle" /\ IsCreate(req'[p]) /\ task.exists
                /\ ~req'[p].failed)
             => (req'[p].pc = "done" /\ req'[p].result = "409" /\ task' = task)]_vars

\* C16 witness: one create stored a task with an approver and threshold 2 and
\* returned; a second create of the same key got 409 and the row is the first
\* create's.
C16_Witness ==
    \E p, q \in Procs :
        /\ IsCreate(req[p]) /\ req[p].pc = "done" /\ req[p].result = "true"
        /\ IsCreate(req[q]) /\ req[q].pc = "done" /\ req[q].result = "409"
        /\ req[p].self.threshold = 2 /\ req[p].self.approvers # {}
        /\ StoredAsGiven(task, req[p])

\* Request r is a create that returned success without a failed store call.
CreatedCleanly(r) ==
    IsCreate(r) /\ r.pc = "done" /\ r.result = "true" /\ ~r.failed

\* C17: after a create in which no store call failed, every identity of
\* approvers union assignees has its notification row of the task, with
\* status 0 (one row also for an identity in both sets), nobody else has one,
\* and the group notification row exists exactly if a group role was given.
C17_FanOutComplete ==
    \A p \in Procs :
        CreatedCleanly(req[p]) =>
           /\ \A i \in Ids :
                 IF i \in req[p].self.approvers \cup req[p].self.assignees
                 THEN notif[i].exists /\ notif[i].status = 0
                 ELSE ~notif[i].exists
           /\ gnotif.exists <=> req[p].group_role # {}
           /\ gnotif.exists => gnotif.role \in req[p].group_role

\* C17 witness: a create with a group role and an identity that is both
\* approver and assignee returned without a failed call, and some identity is
\* no member and has no notification.
C17_Witness ==
    \E p \in Procs :
        /\ CreatedCleanly(req[p])
        /\ req[p].self.approvers \cap req[p].self.assignees # {}
        /\ req[p].group_role # {}
        /\ \E i \in Ids : i \notin req[p].self.approvers \cup req[p].self.assignees
                             /\ ~notif[i].exists
        /\ gnotif.exists

\* C18: the fan-out is best-effort: once the insert of the task is applied,
\* no later step of the create changes or removes the task row, whether its
\* notification insert fails or not, and the create ends with success.
C18_FanOutBestEffort ==
    [][\A p \in Procs :
          (IsCreate(req[p]) /\ req[p].applied /\ req'[p] # req[p])
          => /\ task' = task /\ task.exists
             /\ req'[p].pc = "done" => req'[p].result = "true"]_vars

\* C18 witness: a create returned success although a store call of its
\* fan-out failed: the task row is stored, some member has no notification
\* and another member has one.
C18_Witness ==
    \E p \in Procs :
        /\ IsCreate(req[p]) /\ req[p].pc = "done" /\ req[p].result = "true"
        /\ req[p].failed
        /\ StoredAsGiven(task, req[p])
        /\ \E i, j \in req[p].self.approvers \cup req[p].self.assignees :
              ~notif[i].exists /\ notif[j].exists

IsDelete(r) == r.op = "delete"

\* Request p ran alone: no other request was in flight at any of its steps.
RanAlone(p) ==
    /\ ~req'[p].overlap
    /\ \A q \in Procs \ {p} : req[q].pc \in {"idle", "done"} /\ ~req[q].overlap

\* C19: a task delete whose first read cannot fetch the row, because the row
\* is absent or the read fails, returns false and changes nothing; a task
\* delete that ran alone, without a failed store call, and returns true
\* leaves the task row, its group notification and every notification of the
\* task absent.
C19_DeleteRemovesEverything ==
    [][\A p \in Procs :
          /\ (/\ req[p].op = "idle" /\ IsDelete(req'[p])
              /\ req'[p].result # "400"
              /\ (~task.exists \/ req'[p].failed))
             => /\ req'[p].pc = "done" /\ req'[p].result = "false"
                /\ task' = task /\ notif' = notif /\ gnotif' = gnotif /\ other' = other
          /\ (/\ IsDelete(req'[p]) /\ req[p].pc # "done"
              /\ req'[p].pc = "done" /\ req'[p].result = "true"
              /\ ~req'[p].failed
              /\ RanAlone(p))
             => /\ ~task'.exists
                /\ ~gnotif'.exists
                /\ \A i \in Ids : ~notif'[i].exists]_vars

\* C19 witness: after a vote that succeeded, a task delete ran alone without
\* a failed call and returned true; the task, its group notification and its
\* notifications are gone.
C19_Witness ==
    \E p, q \in Procs :
        /\ IsDelete(req[p]) /\ req[p].pc = "done" /\ req[p].result = "true"
        /\ ~req[p].failed /\ ~req[p].overlap /\ req[p].applied
        /\ IsAck(req[q]) /\ req[q].pc = "done" /\ req[q].result = "true"
        /\ ~req[q].overlap
        /\ ~task.exists /\ ~gnotif.exists
        /\ \A i \in Ids : ~notif[i].exists

\* C20: once a task delete has deleted the task row it reports success,
\* whatever errors the group notification delete, the scan of the
\* notification purge or its row deletes return.
C20_TeardownErrorsSwallowed ==
    \A p \in Procs :
        (IsDelete(req[p]) /\ req[p].applied /\ req[p].pc = "done")
        => req[p].result = "true"

\* Request r is a finished, successful resolve vote of a voter with decision
\* authority by the approvers of row.
FinishedResolve(r, row) ==
    /\ IsAck(r) /\ r.status = 1
    /\ r.pc = "done" /\ r.result = "true"
    /\ (row.approvers = {} \/ r.uid \in row.approvers)

\* Every request that started is a finished resolve vote of a voter with
\* decision authority, and there is one.
OnlyResolvesFinished(rq, row) ==
    /\ \A p \in Procs : rq[p].op = "idle" \/ FinishedResolve(rq[p], row)
    /\ \E p \in Procs : FinishedResolve(rq[p], row)

\* C21: same-direction races converge: when the only requests are resolve
\* votes of voters with decision authority and all have finished, whatever
\* the interleaving of their steps, the status is approved if and only if
\* |resolved| >= threshold and |resolved| >= 1; and every status write of a
\* resolve vote writes approved.
C21_ResolvesConverge ==
    [][/\ OnlyResolvesFinished(req', task') =>
            (task'.status = 1 <=>
                (/\ Cardinality(task'.resolved) >= task'.threshold
                 /\ Cardinality(task'.resolved) >= 1))
       /\ \A p \in Procs :
            (req[p].pc = "res_status" /\ req'[p] # req[p] /\ req'[p].pc # "done")
            => task'.status = 1]_vars

\* C21 witness: two distinct voters resolved concurrently, each re-read a
\* pending row with both votes and each wrote the status; the task is
\* approved.
C21_Witness ==
    \E p, q \in Procs :
        /\ FinishedResolve(req[p], task) /\ FinishedResolve(req[q], task)
        /\ req[p].uid # req[q].uid
        /\ req[p].self.status = 0 /\ ShouldApprove(req[p].self, req[p].uid)
        /\ req[q].self.status = 0 /\ ShouldApprove(req[q].self, req[q].uid)
        /\ Cardinality(req[p].self.resolved) = 2
        /\ Cardinality(req[q].self.resolved) = 2
        /\ task.status = 1

\* The votes stored in the row differ from the ones request r re-read.
StaleSnapshot(r) ==
    r.self.resolved # task.resolved \/ r.self.rejected # task.rejected

\* C22: opposite-direction race: the status write of a vote is computed from
\* the snapshot of its re-read and lands whatever the row has become since:
\* a status write on a present row stores its target also when later votes
\* made the snapshot stale, and it changes no vote set, so the final status
\* is the target of the status write that landed last.
C22_StaleStatusWriteLands ==
    [][\A p \in Procs :
          /\ (req[p].pc = "res_status" /\ req'[p] # req[p] /\ task.exists)
             => task' = [task EXCEPT !.status = 1]
          /\ (req[p].pc = "rej_status" /\ req'[p] # req[p] /\ task.exists)
             => task' = [task EXCEPT !.status = -1]]_vars

\* C22 witness: a resolve and a reject vote overlapped and both finished;
\* the stored votes satisfy the reject rule and not the approve rule, the
\* resolve vote decided on a snapshot that the reject vote made stale, and
\* its status write landed last: the task is approved.
C22_Witness ==
    \E p, q \in Procs :
        /\ IsAck(req[p]) /\ req[p].status = 1
        /\ req[p].pc = "done" /\ req[p].result = "true"
        /\ IsAck(req[q]) /\ req[q].status = -1
        /\ req[q].pc = "done" /\ req[q].result = "true"
        /\ (req[p].overlap \/ req[q].overlap)
        /\ ShouldApprove(req[p].self, req[p].uid) /\ StaleSnapshot(req[p])
        /\ ShouldReject(req[q].self, req[q].uid) /\ ~StaleSnapshot(req[q])
        /\ Rejectable(task) /\ ~Approvable(task)
        /\ task.status = 1

\* C23: token chaining: a scalar update whose conditional write is applied
\* stores its new stamp as updated_at and returns that stamp in the Task
\* object; a scalar update called with the updated_at the row holds, be it a
\* token returned by an earlier update or one fetched after a conflict,
\* passes the version read, and succeeds at its write unless the row's
\* updated_at was changed in between.
C23_TokenChaining ==
    [][\A p \in Procs :
          /\ (/\ req[p].op = "idle" /\ IsUpdate(req'[p])
              /\ req'[p].result # "400"
              /\ task.exists
              /\ req'[p].updated_at = task.updated_at)
             => req'[p].pc = "upd_write"
          /\ (/\ req[p].pc = "upd_write" /\ req'[p] # req[p]
              /\ task.exists
              /\ task.updated_at = req[p].updated_at)
             => /\ req'[p].pc = "done" /\ req'[p].result = "true"
                /\ task'.updated_at = req[p].new_updated_at
                /\ req'[p].self.updated_at = task'.updated_at]_vars

\* C23 witness: an update failed with a conflict on a token the row did not
\* hold; after it, an update with the updated_at of the row succeeded at a
\* later clock reading, and the stored updated_at is the stamp it returned.
C23_Witness ==
    \E p, q \in Procs :
        /\ IsUpdate(req[p]) /\ req[p].pc = "done" /\ req[p].result = "409"
        /\ IsUpdate(req[q]) /\ req[q].pc = "done" /\ req[q].result = "true"
        /\ ~req[p].overlap /\ ~req[q].overlap
        /\ req[q].updated_at # req[p].updated_at
        /\ req[q].self.updated_at # req[q].updated_at
        /\ task.updated_at = req[q].self.updated_at

IsUpdateAssignees(r) == r.op = "update_assignees"

\* Request p takes the step of its addition write after its removal write
\* was applied, and the addition is not applied.
AdditionFailsAfterRemoval(p) ==
    /\ IsUpdateAssignees(req[p]) /\ req[p].pc = "ua_add"
    /\ req[p].applied
    /\ req'[p].pc = "done" /\ req'[p].result # "true"

\* C24 as claimed: when the removal write is applied and the addition write
\* is not, by conflict or by store failure, the operation returns an error,
\* the stored updated_at is the new stamp and the stored assignees hold no
\* removed identity.
C24_PartialUpdateKeepsNewStamp ==
    [][\A p \in Procs :
          AdditionFailsAfterRemoval(p) =>
             /\ req'[p].result \in {"409", "500"}
             /\ task'.updated_at = req[p].new_updated_at
             /\ task'.assignees \cap req[p].remove = {}]_vars

\* C24 as amended: the removal write, when applied, takes `remove` out of
\* the stored assignees, stamps updated_at and changes nothing else; an
\* addition write that is not applied returns an error and leaves the row
\* as it is, the removal not rolled back; after a store failure with no
\* other request running the stored updated_at is the new stamp and no
\* removed identity is an assignee, while a conflict means that the stored
\* updated_at no longer is that stamp.
C24_PartialUpdateNoRollback ==
    [][\A p \in Procs :
          /\ (/\ req[p].pc = "ua_remove" /\ req'[p] # req[p]
              /\ req'[p].applied)
             => task' = [task EXCEPT !.assignees = @ \ req[p].remove,
                                     !.updated_at = req[p].new_updated_at]
          /\ AdditionFailsAfterRemoval(p) =>
                /\ req'[p].result \in {"409", "500"}
                /\ task' = task
                /\ (req'[p].result = "500" /\ RanAlone(p)) =>
                      /\ task'.updated_at = req[p].new_updated_at
                      /\ task'.assignees \cap req[p].remove = {}
                /\ req'[p].result = "409" =>
                      task'.updated_at # req[p].new_updated_at]_vars

\* C24 witness: the removal of an update_assignees was applied, another
\* writer changed the row, and the addition was refused with 409: the stored
\* updated_at is not the stamp of the removal.
C24_Witness ==
    \E p \in Procs :
        /\ IsUpdateAssignees(req[p]) /\ req[p].pc = "done" /\ req[p].result = "409"
        /\ req[p].applied
        /\ req[p].remove # {} /\ req[p].add # {}
        /\ task.updated_at # req[p].new_updated_at

\* A write step of update_assignees.
AssigneesWriteStep(p) ==
    /\ req[p].pc \in {"ua_remove", "ua_add"}
    /\ req'[p] # req[p]

\* C25: an update_assignees changes only assignees and updated_at, the vote
\* sets, status, approvers and threshold staying as they are, and when it
\* returns success the stored assignees are the old ones minus `remove`
\* plus `add`: every added identity is an assignee and no identity that
\* was removed and not added is one.
C25_AssigneesReplaced ==
    [][\A p \in Procs :
          /\ AssigneesWriteStep(p) =>
                /\ task'.resolved = task.resolved
                /\ task'.rejected = task.rejected
                /\ task'.status = task.status
                /\ task'.approvers = task.approvers
                /\ task'.threshold = task.threshold
          /\ (/\ IsUpdateAssignees(req[p]) /\ req[p].pc = "ua_add"
              /\ req'[p].pc = "done" /\ req'[p].result = "true")
             => /\ req[p].add \subseteq task'.assignees
                /\ (req[p].remove \ req[p].add) \cap task'.assignees = {}]_vars

\* C26: once a create has stored the task row, its created_at equals its
\* updated_at.
C26_CreatedEqualsUpdated ==
    \A p \in Procs :
        (IsCreate(req[p]) /\ req[p].applied) => task.created_at = task.updated_at

\* Ack p returns true at this step.
AckReturnsTrue(p) ==
    /\ IsAck(req[p]) /\ req[p].pc # "done"
    /\ req'[p].pc = "done" /\ req'[p].result = "true"

\* In the next state the voter of request r is in the set r voted for and
\* not in the other one.
VoteCounted(r) ==
    IF r.status = 1
    THEN r.uid \in task'.resolved /\ r.uid \notin task'.rejected
    ELSE r.uid \in task'.rejected /\ r.uid \notin task'.resolved

\* The notification of r's recipient holds in the next state the status and
\* the message r supplied.
AckRecorded(r) ==
    /\ notif'[r.uid].exists
    /\ notif'[r.uid].status = r.status
    /\ notif'[r.uid].message = r.message

\* No other request is an ack of the recipient of p.
OnlyAckOfRecipient(p) ==
    \A q \in Procs \ {p} : IsAck(req[q]) => req[q].uid # req[p].uid

AckAlone(row, uid, st) ==
    IF st = 1
    THEN LET v == VoteResolved(row, uid)
             s == Fill(Fill(TaskDefault, row, {"approvers", "assignees"}), v,
                       {"threshold", "status", "resolved", "rejected"})
         IN  IF ShouldApprove(s, uid) THEN SetStatus(v, 1) ELSE v
    ELSE LET v == VoteRejected(row, uid)
             s == Fill(TaskDefault, v, {"threshold", "status", "resolved", "rejected"})
         IN  IF ShouldReject(s, uid) THEN SetStatus(v, -1) ELSE v

\* Ack p fails at this step with a store error, its vote statement applied.
AckFailsAfterVote(p) ==
    /\ IsAck(req[p]) /\ req[p].applied /\ req[p].pc # "done"
    /\ req'[p].pc = "done" /\ req'[p].result = "500"

\* C28: an ack that fails at the re-read, the status write or the
\* notification update leaves the task row and the notification as they
\* are, the vote in its set and the notification with its old status; an
\* ack that runs alone from its first call to its return, repeated or not,
\* leaves the same task row and the same notification, those of one
\* uninterrupted ack; and a repeated ack that runs alone without a failing
\* call returns true.
C28_RepeatedAckRecovers ==
    [][\A p \in Procs :
          /\ AckFailsAfterVote(p) =>
                /\ req[p].pc \in {"res_reread", "res_status", "rej_reread",
                                   "rej_status", "ack_update"}
                /\ task' = task /\ notif' = notif
                /\ RanAlone(p) =>
                      /\ VoteCounted(req[p])
                      /\ notif'[req[p].uid].status = req[p].doc.status
                      /\ notif'[req[p].uid].status # req[p].status
          /\ (AckReturnsTrue(p) /\ RanAlone(p)) =>
                /\ task' = AckAlone(req[p].before, req[p].uid, req[p].status)
                /\ AckRecorded(req[p])
          /\ (/\ IsAck(req[p]) /\ req[p].repeat /\ req[p].pc # "done"
              /\ req'[p].pc = "done" /\ ~req'[p].failed /\ RanAlone(p))
             => req'[p].result = "true"]_vars

\* C28 witness: a recipient who had rejected sent a resolve that failed after
\* its vote, repeated it with nothing else running and got true: the task is
\* approved with the recipient in resolved only.
C28_Witness ==
    \E p, q \in Procs :
        /\ IsAck(req[p]) /\ req[p].repeat /\ req[p].result = "true"
        /\ ~req[p].overlap /\ ~req[q].overlap
        /\ IsAck(req[q]) /\ req[q].result = "true" /\ req[q].uid = req[p].uid
        /\ req[q].status = -1 /\ req[p].status = 1
        /\ req[p].uid \in req[p].before.rejected
        /\ task = AckAlone(req[p].before, req[p].uid, 1)
        /\ task.status = 1 /\ task.rejected = {}
        /\ notif[req[p].uid].status = 1

IsList(r) == r.op \in {"notif_list", "task_list", "group_list"}

\* The rows of the partition request r lists.
ListedPartition(r) ==
    IF r.op = "notif_list" THEN NotificationPartition(r.uid)
    ELSE IF r.op = "task_list" THEN TaskPartition
    ELSE GroupPartition

\* A row of the partition satisfies the cursor and the filter of request r.
Wanted(r, row) ==
    /\ row \in ListedPartition(r)
    /\ \A c \in r.page_token : TidRank(row.tid) < c
    /\ \A f \in r.filter : row.status = f

\* C29: a listing whose rows all have their task returns a page of at most
\* page_size rows of the partition, all below the cursor when one is given
\* and all with the status (role) of the filter when one is given, also when
\* both are given, and not an empty page while some row satisfies cursor and
\* filter; the API gives a next page token, the id of the last row, exactly
\* when the page holds page_size rows.
C29_PagedListing ==
    \A p \in Procs :
        (IsList(req[p]) /\ req[p].pc = "done" /\ req[p].result # "404") =>
            LET r == req[p] IN
            /\ r.result = "true"
            /\ Len(r.page) <= r.page_size
            /\ \A i \in 1..Len(r.page) : Wanted(r, r.page[i])
            /\ (\E row \in ListedPartition(r) : Wanted(r, row)) => r.page # <<>>
            /\ r.op # "group_list" =>
                  /\ r.next_page_token # {} <=> Len(r.page) = r.page_size
                  /\ \A t \in r.next_page_token : t = TidRank(r.page[Len(r.page)].tid)

\* No request other than p is a versioned write.
OnlyVotesBeside(p) ==
    \A q \in Procs \ {p} : req[q].op \in {"idle", "ack"}

\* C30: every step of a vote leaves updated_at, duedate, message, threshold,
\* approvers and assignees of the task as they are, so a scalar update
\* beside which only votes run is not refused for a conflict when its token
\* is the stored updated_at, and once past its token test it succeeds.
C30_VotesKeepVersion ==
    [][\A p \in Procs :
          /\ (IsAck(req[p]) /\ req'[p] # req[p]) =>
                /\ task'.updated_at = task.updated_at
                /\ task'.duedate = task.duedate
                /\ task'.message = task.message
                /\ task'.threshold = task.threshold
                /\ task'.approvers = task.approvers
                /\ task'.assignees = task.assignees
                /\ task'.exists = task.exists
          /\ (/\ req[p].op = "idle" /\ IsUpdate(req'[p])
              /\ req'[p].updated_at = task.updated_at
              /\ req'[p].keys \subseteq {"duedate", "message"})
             => req'[p].pc = "upd_write"
          /\ (req[p].pc = "upd_write" /\ req'[p] # req[p] /\ OnlyVotesBeside(p))
             => /\ req'[p].result = "true"
                /\ task'.updated_at = req[p].new_updated_at]_vars

\* C30 witness: a resolve began after a scalar update had read the version
\* and approved the task; the update, with the stamp of the create for its
\* token, succeeded and stored a later stamp.
C30_Witness ==
    \E p, q \in Procs :
        /\ IsUpdate(req[p]) /\ req[p].result = "true" /\ req[p].updated_at = 0
        /\ IsAck(req[q]) /\ req[q].overlap /\ req[q].result = "true"
        /\ req[q].uid \in task.resolved
        /\ task.status = 1
        /\ task.updated_at = req[p].new_updated_at /\ task.updated_at > 0

\* C31: the status of the task and of every notification is -1, 0 or 1; no
\* step takes the status of the task from -1 or 1 back to 0, and no step
\* takes the status of a notification from -1 or 1 back to 0; an ack with a
\* requested status other than -1 and 1 ends with a validation error
\* without a write.
C31_StatusNeverBackToPending ==
    [][/\ task'.exists => task'.status \in {-1, 0, 1}
       /\ (task.exists /\ task'.exists /\ task.status # 0) => task'.status # 0
       /\ \A i \in Ids :
             /\ notif'[i].exists => notif'[i].status \in {-1, 0, 1}
             /\ (notif[i].exists /\ notif'[i].exists /\ notif[i].status # 0)
                => notif'[i].status # 0
       /\ \A p \in Procs :
             (IsAck(req'[p]) /\ req'[p].status \notin {-1, 1})
             => req'[p].result = "400"]_vars

\* C31 witness: an ack has approved the task and set the notification of
\* its recipient to 1, and a later ack of that recipient with status 0 was
\* refused with a validation error, task and notification keeping status 1.
C31_Witness ==
    \E p, q \in Procs :
        /\ task.exists /\ task.status = 1
        /\ IsAck(req[p]) /\ req[p].result = "true" /\ req[p].status = 1
        /\ notif[req[p].uid].exists /\ notif[req[p].uid].status = 1
        /\ IsAck(req[q]) /\ req[q].uid = req[p].uid /\ ~req[q].overlap
        /\ req[q].status = 0 /\ req[q].result = "400"

\* The positions of a request whose next store call addresses the task row.
TaskCalls ==
    {"res_get", "res_vote", "res_reread", "res_status",
     "rej_vote", "rej_reread", "rej_status", "upd_write", "ua_remove", "ua_add"}

\* C32: an absent task row stays absent and an absent notification row stays
\* absent at every step of a vote, a scalar update, an assignee update and a
\* notification update, and the step of such an operation that addresses an
\* absent row ends the operation with an error.
C32_NoUpdateRecreates ==
    [][/\ ~task.exists => ~task'.exists
       /\ \A i \in Ids : ~notif[i].exists => ~notif'[i].exists
       /\ \A p \in Procs :
             /\ (req[p].pc \in TaskCalls /\ req'[p] # req[p] /\ ~task.exists)
                => req'[p].pc = "done" /\ req'[p].result \in {"404", "409"}
             /\ (/\ req[p].op = "idle" /\ ~task.exists
                 /\ IsUpdate(req'[p]) \/ IsUpdateAssignees(req'[p]))
                => req'[p].pc = "done" /\ req'[p].result \in {"400", "404"}
             /\ (/\ req[p].pc = "ack_update" /\ req'[p] # req[p]
                 /\ ~notif[req[p].uid].exists)
                => req'[p].pc = "done" /\ req'[p].result = "409"
             /\ (/\ req[p].op = "idle" /\ IsAck(req'[p])
                 /\ req'[p].status \in {-1, 1} /\ ~notif[req'[p].uid].exists)
                => req'[p].pc = "done" /\ req'[p].result = "404"]_vars

\* C32 witness: the task row was deleted while a vote was past its vote
\* statement; the vote ended with an error and the row is absent.
C32_Witness ==
    \E p, q \in Procs :
        /\ IsDelete(req[p]) /\ req[p].applied
        /\ IsAck(req[q]) /\ req[q].applied /\ req[q].pc = "done"
        /\ req[q].result \in {"404", "409"}
        /\ ~task.exists

\* No ack of recipient i is between its first and its last store call.
NoAckInFlight(i) ==
    \A p \in Procs :
        (IsAck(req[p]) /\ req[p].uid = i) => req[p].pc \in {"idle", "done"}

\* C33: whenever no ack of a recipient is in flight and the task exists, the
\* status of the recipient's notification agrees with the vote sets: with
\* status 1 the recipient is in resolved, with status -1 in rejected.
C33_NotificationAgreesWithVotes ==
    \A i \in Ids :
        (task.exists /\ notif[i].exists /\ NoAckInFlight(i)) =>
            /\ notif[i].status = 1 => i \in task.resolved
            /\ notif[i].status = -1 => i \in task.rejected

\* C34: once a task delete has returned true and every request has
\* finished, the create of the task included, no store call having failed,
\* no notification and no group notification of the task exists.
C34_NoOrphanedProjections ==
    \A p \in Procs :
        (/\ IsDelete(req[p]) /\ req[p].pc = "done" /\ req[p].result = "true"
         /\ \A q \in Procs : req[q].pc \in {"idle", "done"} /\ ~req[q].failed)
        => /\ \A i \in Ids : ~notif[i].exists
           /\ ~gnotif.exists

\* C35: batch_delete_by_tid terminates: a task delete that has reached the
\* scan of the purge loop returns, every store call returning and no
\* notification being inserted, also when deletes of rows return errors.
C35_PurgeTerminates ==
    \A p \in Procs : (req[p].pc = "purge_scan") ~> (req[p].pc = "done")

====
